---- MODULE Spec2Model ----
(***************************************************************************)
(* Model of fix_unwrap_or.py: a codemod that rewrites `.unwrap_or(...)`    *)
(* call shapes in Rust sources by an ordered list of regex rules.          *)
(*                                                                         *)
(* A text is a sequence of tokens.  Every token stands for the exact       *)
(* character string it spells.  The regexes of PATTERNS are matched token  *)
(* by token; the three character-level facts the regexes look at are kept  *)
(* as token classes: whether a token starts with `.` (the `(?![.])`        *)
(* lookahead), whether and where it holds a `)` (the `[^)]+` group of the  *)
(* try_exists rule), and whether it is a `.get(a..b)` call (the `\d+`      *)
(* groups of the callback rule).  No pattern literal straddles two tokens, *)
(* so a match of a regex in the spelled string is a match on the tokens.   *)
(***************************************************************************)
EXTENDS Integers, Sequences, FiniteSets, TLC

VARIABLES rootExists, files, disk0, run, pc, status, rs_file,
          content, original_content, fixes, pattern_tuple,
          ret, total_fixes, out, io

vars == <<rootExists, files, disk0, run, pc, status, rs_file,
          content, original_content, fixes, pattern_tuple,
          ret, total_fixes, out, io>>

\* ------------------------------------------------------------------ bounds
MaxChunks == 3
MaxFiles == 3
MaxRuns == 2

\* ------------------------------------------------------------------ tokens
GetTokens == {".get(0..16)", ".get(4..8)"}

UnwrapOrTokens ==
  {".unwrap_or(0)", ".unwrap_or(false)", ".unwrap_or(\"\")",
   ".unwrap_or(\"unknown\")", ".unwrap_or(\"open\")", ".unwrap_or(\"-\")",
   ".unwrap_or(60)", ".unwrap_or(300)", ".unwrap_or(30)", ".unwrap_or(1)",
   ".unwrap_or(i64::MAX)", ".unwrap_or(u64::MAX)"}

MapOrTokens ==
  {".map_or(0, |v| v)", ".map_or(false, |v| v)", ".map_or(\"\", |v| v)",
   ".map_or(\"unknown\", |v| v)", ".map_or(\"open\", |v| v)",
   ".map_or(\"-\", |v| v)", ".map_or(60, |v| v)", ".map_or(300, |v| v)",
   ".map_or(30, |v| v)", ".map_or(1, |v| v)", ".map_or(i64::MAX, |v| v)",
   ".map_or(u64::MAX, |v| v)"}

MatchOpen == "{match "
MatchArms == " { Some(slice) => slice, None => &[], }"
MapOrElse == ".map_or_else(|_| Vec::new(), |v| v)"

\* tokens whose first character is `.`
DotTokens ==
  UnwrapOrTokens \cup MapOrTokens \cup GetTokens \cup
  {".try_exists(", ".await", ".unwrap_or_default()", ".unwrap_or(&[])",
   MapOrElse}

\* tokens without any `)`
NoParen == {"p", ".try_exists(", ".await", MatchOpen}

\* tokens whose only `)` is their last character, after at least one other
\* character
ParenAtEnd ==
  UnwrapOrTokens \cup MapOrTokens \cup GetTokens \cup
  {".unwrap_or_default()", ".unwrap_or(&[])"}

\* every other token (`)` itself aside) holds a `)` followed by more text:
\* MapOrElse (`new()` then `, |v| v)`) and MatchArms (`(slice)` then ` =>`)

\* ------------------------------------------------------------------ rules
\* A rule is the regex, its replacement and the is_function flag:
\*   head  what precedes the literal tail: "none", "try" for
\*         `\.try_exists\(([^)]+)\)` or "get" for `\.get\((\d+)\.\.(\d+)\)`
\*   tail  the literal tokens that end the regex
\*   guard TRUE when the regex ends in `(?![.])`
\*   repl  the tokens the template puts in place of the tail (the head is
\*         copied by `.try_exists(\1)`); unused by the callback rule
\* a rule pasted from its neighbour with the replacement left as it was
LiteralPasted(tok, rep) ==
  [head |-> "none", tail |-> <<tok>>, guard |-> TRUE,
   repl |-> <<".map_or(false, |v| v)">>, is_function |-> FALSE]

Literal(tok, rep) ==
  [head |-> "none", tail |-> <<tok>>, guard |-> TRUE, repl |-> <<rep>>,
   is_function |-> FALSE]

PATTERNS ==
  << [head |-> "try", tail |-> <<".await", ".unwrap_or(false)">>,
      guard |-> FALSE, repl |-> <<".await", ".map_or(false, |v| v)">>,
      is_function |-> FALSE],
     Literal(".unwrap_or(0)", ".map_or(0, |v| v)"),
     Literal(".unwrap_or(false)", ".map_or(false, |v| v)"),
     Literal(".unwrap_or(\"\")", ".map_or(\"\", |v| v)"),
     Literal(".unwrap_or(\"unknown\")", ".map_or(\"unknown\", |v| v)"),
     Literal(".unwrap_or(\"open\")", ".map_or(\"open\", |v| v)"),
     Literal(".unwrap_or(\"-\")", ".map_or(\"-\", |v| v)"),
     Literal(".unwrap_or(60)", ".map_or(60, |v| v)"),
     Literal(".unwrap_or(300)", ".map_or(300, |v| v)"),
     Literal(".unwrap_or(30)", ".map_or(30, |v| v)"),
     Literal(".unwrap_or(1)", ".map_or(1, |v| v)"),
     Literal(".unwrap_or(i64::MAX)", ".map_or(i64::MAX, |v| v)"),
     Literal(".unwrap_or(u64::MAX)", ".map_or(u64::MAX, |v| v)"),
     [head |-> "none", tail |-> <<".await", ".unwrap_or_default()">>,
      guard |-> TRUE, repl |-> <<".await", MapOrElse>>,
      is_function |-> FALSE],
     [head |-> "get", tail |-> <<".unwrap_or(&[])">>,
      guard |-> FALSE, repl |-> <<>>, is_function |-> TRUE] >>

\* the lambda of the callback rule: m.group(1) and m.group(2) are the two
\* numbers of the matched `.get(a..b)`, which the f-string spells again
replacement(m) == <<MatchOpen, m.get, MatchArms>>

\* ------------------------------------------------------------------ regex
\* the regex without its lookahead
NoLookahead(text, e) == TRUE

\* (?![.]) at the end of a match whose last token is text[e]
NotFollowedByDot(text, e) ==
  e + 1 > Len(text) \/ text[e + 1] \notin DotTokens

\* index of the first token at or after j that holds a `)`, 0 when none
RECURSIVE FirstParen(_, _)
FirstParen(text, j) ==
  IF j > Len(text) THEN 0
  ELSE IF text[j] \in NoParen THEN FirstParen(text, j + 1)
  ELSE j

\* index of the last token of the head of a match that starts at text[i],
\* 0 when the head does not match there; i - 1 for a rule without head
HeadEnd(rule, text, i) ==
  CASE rule.head = "none" -> i - 1
    [] rule.head = "get" -> IF text[i] \in GetTokens THEN i ELSE 0
    [] rule.head = "try" ->
         LET j == FirstParen(text, i + 1) IN
         IF /\ text[i] = ".try_exists("
            /\ j > 0
            /\ \/ text[j] \in ParenAtEnd
               \/ text[j] = ")" /\ j > i + 1
         THEN j ELSE 0

\* index of the last token of the match of rule that starts at text[i],
\* 0 when rule does not match at i
MatchEnd(rule, text, i) ==
  LET h == HeadEnd(rule, text, i)
      e == h + Len(rule.tail)
  IN IF /\ rule.head = "none" \/ h > 0
        /\ e <= Len(text)
        /\ \A n \in 1..Len(rule.tail) : text[h + n] = rule.tail[n]
        /\ rule.guard => NotFollowedByDot(text, e)
     THEN e ELSE 0

\* re.finditer / re.findall: the non-overlapping matches, leftmost first
RECURSIVE finditer(_, _, _)
finditer(rule, text, i) ==
  IF i > Len(text) THEN <<>>
  ELSE LET e == MatchEnd(rule, text, i) IN
       IF e > 0
       THEN <<[start |-> i, end |-> e, get |-> text[i]]>>
              \o finditer(rule, text, e + 1)
       ELSE finditer(rule, text, i + 1)

findall(rule, text) == finditer(rule, text, 1)

\* re.sub with a template: every non-overlapping match, leftmost first, is
\* replaced by the head it matched followed by rule.repl
RECURSIVE sub(_, _, _)
sub(rule, text, i) ==
  IF i > Len(text) THEN <<>>
  ELSE LET e == MatchEnd(rule, text, i) IN
       IF e > 0
       THEN SubSeq(text, i, e - Len(rule.tail)) \o rule.repl
              \o sub(rule, text, e + 1)
       ELSE <<text[i]>> \o sub(rule, text, i + 1)

\* ------------------------------------------------------------------ fix_file
\* the slice after the match taken one position too far
SpliceOffByOne(text, m, new_text) ==
  SubSeq(text, 1, m.start - 1) \o new_text \o SubSeq(text, m.end + 2, Len(text))

\* content[:match.start()] + new_text + content[match.end():]
Splice(text, m, new_text) ==
  SubSeq(text, 1, m.start - 1) \o new_text \o SubSeq(text, m.end + 1, Len(text))

\* for match in reversed(matches): splice, fixes += 1
RECURSIVE ApplyMatches(_, _)
ApplyMatches(matches, st) ==
  IF matches = <<>> THEN st
  ELSE LET n == Len(matches)
           m == matches[n]
       IN ApplyMatches(SubSeq(matches, 1, n - 1),
                       [content |-> Splice(st.content, m, replacement(m)),
                        fixes |-> st.fixes + 1])

\* the matches applied first to last, without reversed()
RECURSIVE ApplyForward(_, _)
ApplyForward(matches, st) ==
  IF matches = <<>> THEN st
  ELSE LET m == matches[1] IN
       ApplyForward(Tail(matches),
                    [content |-> SubSeq(st.content, 1, m.start - 1)
                                   \o replacement(m)
                                   \o SubSeq(st.content, m.end + 1,
                                             Len(st.content)),
                     fixes |-> st.fixes + 1])

FunctionRuleForward(rule, st) ==
  ApplyForward(findall(rule, st.content), st)

\* the is_function branch of the loop body
FunctionRule(rule, st) ==
  ApplyMatches(findall(rule, st.content), st)

\* the matches counted in the text after the substitution
TemplateCountAfter(rule, cur, orig) == Len(findall(rule, sub(rule, cur, 1)))

\* the number a template rule adds to fixes when it changed the text
TemplateCount(rule, cur, orig) == Len(findall(rule, orig))

\* the template branch of the loop body
TemplateRule(rule, st, orig) ==
  LET new_content == sub(rule, st.content, 1) IN
  IF new_content # st.content
  THEN [content |-> new_content,
        fixes |-> st.fixes + TemplateCount(rule, st.content, orig)]
  ELSE st

\* ------------------------------------------------------------------ inputs
\* the pieces the text of a single file is put together from: single tokens
\* and the call shapes the rules look for
Chunks ==
  { <<"p">>, <<")">>, <<".try_exists(">>,
    <<".unwrap_or(false)">>, <<".unwrap_or(0)">>,
    <<".try_exists(", "p", ")", ".await", ".unwrap_or(false)">>,
    <<".await", ".unwrap_or(false)">>,
    <<".await", ".unwrap_or_default()">>,
    <<".get(0..16)", ".unwrap_or(&[])">>,
    <<".get(4..8)", ".unwrap_or(&[])">> }

RECURSIVE Texts(_)
Texts(n) ==
  IF n = 0 THEN {<<>>}
  ELSE LET T == Texts(n - 1) IN T \cup {t \o c : t \in T, c \in Chunks}

\* the files of a tree with several files
TreeTexts ==
  { <<"p", ")">>,
    <<".unwrap_or(0)", "p">>,
    <<".unwrap_or(false)", ".await">>,
    <<".get(4..8)", ".unwrap_or(&[])">> }

RECURSIVE Trees(_)
Trees(n) ==
  IF n = 0 THEN {<<>>}
  ELSE LET D == Trees(n - 1) IN D \cup {Append(d, t) : d \in D, t \in TreeTexts}

\* ------------------------------------------------------------------ main
Init ==
  /\ rootExists \in BOOLEAN
  /\ files \in IF rootExists
               THEN Trees(MaxFiles) \cup {<<t>> : t \in Texts(MaxChunks)}
               ELSE {<<>>}
  /\ disk0 = files
  /\ run = 1
  /\ pc = "start"
  /\ status = -1
  /\ rs_file = 0
  /\ content = <<>>
  /\ original_content = <<>>
  /\ fixes = 0
  /\ pattern_tuple = 0
  /\ ret = 0
  /\ total_fixes = 0
  /\ out = <<>>
  /\ io = <<>>

Line(kind, n, file) == [kind |-> kind, n |-> n, file |-> file]
IO(op, file) == [op |-> op, file |-> file]

locals == <<content, original_content, fixes, pattern_tuple, ret>>

\* the root check without sys.exit(1): the error is printed and main goes on
MainStartNoExit ==
  /\ pc = "start"
  /\ out' = IF rootExists THEN out ELSE Append(out, Line("Error", 0, 0))
  /\ pc' = "loop"
  /\ total_fixes' = 0
  /\ rs_file' = 1
  /\ UNCHANGED <<rootExists, files, disk0, run, status, locals, io>>

\* main up to the loop: the root check
MainStart ==
  /\ pc = "start"
  /\ IF ~rootExists
     THEN /\ out' = Append(out, Line("Error", 0, 0))
          /\ status' = 1
          /\ pc' = "exit1"
          /\ UNCHANGED <<rs_file, total_fixes>>
     ELSE /\ pc' = "loop"
          /\ total_fixes' = 0
          /\ rs_file' = 1
          /\ UNCHANGED <<out, status>>
  /\ UNCHANGED <<rootExists, files, disk0, run, locals, io>>

\* fix_file entry: content = filepath.read_text()
ReadFile ==
  /\ pc = "loop"
  /\ rs_file <= Len(files)
  /\ io' = Append(io, IO("read", rs_file))
  /\ content' = files[rs_file]
  /\ original_content' = files[rs_file]
  /\ fixes' = 0
  /\ pattern_tuple' = 1
  /\ pc' = "rules"
  /\ UNCHANGED <<rootExists, files, disk0, run, status, rs_file, ret,
                 total_fixes, out>>

\* the failure of read_text caught and the file skipped
ReadErrorSkip ==
  /\ pc = "loop"
  /\ rs_file <= Len(files)
  /\ rs_file' = rs_file + 1
  /\ UNCHANGED <<rootExists, files, disk0, run, pc, status, locals,
                 total_fixes, out, io>>

\* read_text raises: nothing catches it, the interpreter exits with 1
ReadError ==
  /\ pc = "loop"
  /\ rs_file <= Len(files)
  /\ pc' = "crash"
  /\ status' = 1
  /\ UNCHANGED <<rootExists, files, disk0, run, rs_file, locals,
                 total_fixes, out, io>>

\* one iteration of `for pattern_tuple in PATTERNS`, callback branch
ApplyFunction ==
  /\ pc = "rules"
  /\ pattern_tuple <= Len(PATTERNS)
  /\ PATTERNS[pattern_tuple].is_function
  /\ LET st == FunctionRule(PATTERNS[pattern_tuple],
                            [content |-> content, fixes |-> fixes])
     IN content' = st.content /\ fixes' = st.fixes
  /\ pattern_tuple' = pattern_tuple + 1
  /\ UNCHANGED <<rootExists, files, disk0, run, pc, status, rs_file,
                 original_content, ret, total_fixes, out, io>>

\* one iteration of `for pattern_tuple in PATTERNS`, template branch
ApplyTemplate ==
  /\ pc = "rules"
  /\ pattern_tuple <= Len(PATTERNS)
  /\ ~PATTERNS[pattern_tuple].is_function
  /\ LET st == TemplateRule(PATTERNS[pattern_tuple],
                            [content |-> content, fixes |-> fixes],
                            original_content)
     IN content' = st.content /\ fixes' = st.fixes
  /\ pattern_tuple' = pattern_tuple + 1
  /\ UNCHANGED <<rootExists, files, disk0, run, pc, status, rs_file,
                 original_content, ret, total_fixes, out, io>>

\* the file written whether or not the text changed
ChangedAlways(cur, orig) == TRUE

\* `if content != original_content`
Changed(cur, orig) == cur # orig

\* the end of fix_file and `total_fixes += fix_file(rs_file)`
Return ==
  /\ pc = "rules"
  /\ pattern_tuple > Len(PATTERNS)
  /\ IF Changed(content, original_content)
     THEN /\ files' = [files EXCEPT ![rs_file] = content]
          /\ io' = Append(io, IO("write", rs_file))
          /\ out' = Append(out, Line("Fixed", fixes, rs_file))
          /\ ret' = fixes
     ELSE /\ ret' = 0
          /\ UNCHANGED <<files, io, out>>
  /\ total_fixes' = total_fixes + ret'
  /\ rs_file' = rs_file + 1
  /\ pc' = "loop"
  /\ UNCHANGED <<rootExists, disk0, run, status, content, original_content,
                 fixes, pattern_tuple>>

\* what a failed write_text leaves in the file: open(mode='w') failed and
\* the file is as it was, or it was truncated and the write stopped after
\* some prefix of the new text
FailedWrite(old, new) ==
  {old} \cup {SubSeq(new, 1, n) : n \in 0..Len(new)}

\* write_text raises: nothing catches it, the interpreter exits with 1
WriteError ==
  /\ pc = "rules"
  /\ pattern_tuple > Len(PATTERNS)
  /\ Changed(content, original_content)
  /\ \E left \in FailedWrite(files[rs_file], content) :
       files' = [files EXCEPT ![rs_file] = left]
  /\ io' = Append(io, IO("write", rs_file))
  /\ pc' = "crash"
  /\ status' = 1
  /\ UNCHANGED <<rootExists, disk0, run, rs_file, locals, total_fixes, out>>

\* print(f"\nTotal fixes: {total_fixes}") and the normal exit
Summary ==
  /\ pc = "loop"
  /\ rs_file > Len(files)
  /\ out' = Append(out, Line("Total", total_fixes, 0))
  /\ status' = 0
  /\ pc' = "done"
  /\ UNCHANGED <<rootExists, files, disk0, run, rs_file, locals,
                 total_fixes, io>>

\* the script is started again on the tree the finished run left
Rerun ==
  /\ pc = "done"
  /\ run < MaxRuns
  /\ run' = run + 1
  /\ disk0' = files
  /\ pc' = "start"
  /\ status' = -1
  /\ rs_file' = 0
  /\ content' = <<>>
  /\ original_content' = <<>>
  /\ fixes' = 0
  /\ pattern_tuple' = 0
  /\ ret' = 0
  /\ total_fixes' = 0
  /\ out' = <<>>
  /\ io' = <<>>
  /\ UNCHANGED <<rootExists, files>>

Next ==
  \/ MainStart
  \/ ReadFile
  \/ ReadError
  \/ ApplyFunction
  \/ ApplyTemplate
  \/ Return
  \/ WriteError
  \/ Summary
  \/ Rerun

Spec == Init /\ [][Next]_vars

\* ------------------------------------------------------------------ helpers
N == Len(PATTERNS)

\* a call of fix_file has returned to main; its locals are still in place
Returned == pc \in {"loop", "done"} /\ rs_file > 1
last == rs_file - 1

\* the loop of fix_file is over and the function is about to write or not
LoopDone == pc = "rules" /\ pattern_tuple > N

Wrote(j) == \E n \in 1..Len(io) : io[n] = IO("write", j)
Touched(j) == \E n \in 1..Len(io) : io[n].file = j
FixedLine(j) == \E n \in 1..Len(out) : out[n].kind = "Fixed" /\ out[n].file = j
TotalLine == \E n \in 1..Len(out) : out[n].kind = "Total"

NoRuleMatches(text) == \A k \in 1..N : findall(PATTERNS[k], text) = <<>>

\* the text after rule k has been applied to text, by the definition of
\* re.sub: all matches found in text replaced at once
RECURSIVE AllAtOnce(_, _, _)
AllAtOnce(rule, text, i) ==
  IF i > Len(text) THEN <<>>
  ELSE LET e == MatchEnd(rule, text, i) IN
       IF e > 0
       THEN (IF rule.is_function
             THEN <<MatchOpen, text[i], MatchArms>>
             ELSE SubSeq(text, i, e - Len(rule.tail)) \o rule.repl)
            \o AllAtOnce(rule, text, e + 1)
       ELSE <<text[i]>> \o AllAtOnce(rule, text, i + 1)

\* the text a complete pass of the ordered rule list makes of text
RECURSIVE Rewritten(_, _)
Rewritten(k, text) ==
  IF k > N THEN text ELSE Rewritten(k + 1, AllAtOnce(PATTERNS[k], text, 1))

\* the substitutions a complete pass performs: for every rule in order, its
\* matches in the text as it stands when the rule is applied
RECURSIVE Performed(_, _)
Performed(k, text) ==
  IF k > N THEN 0
  ELSE Len(findall(PATTERNS[k], text))
         + Performed(k + 1, AllAtOnce(PATTERNS[k], text, 1))

\* ------------------------------------------------------------------ C1
\* C1: a second run over the tree a complete first run left rewrites no file
\* and reports a total of zero fixes.
C1_SecondRunIsIdle ==
  (run >= 2 /\ pc = "done") =>
     /\ total_fixes = 0
     /\ out = <<Line("Total", 0, 0)>>
     /\ \A j \in 1..Len(files) : ~Wrote(j) /\ files[j] = disk0[j]

\* ------------------------------------------------------------------ C2
\* C2: the count fix_file reports and returns equals the number of
\* substitutions it performed: the sum, over the rules in order, of the
\* matches of the rule in the text as it stood when the rule was applied.
C2_CountIsSubstitutions ==
  /\ LoopDone => fixes = Performed(1, original_content)
  /\ Returned => /\ ret = Performed(1, original_content)
                 /\ \A n \in 1..Len(out) :
                      (out[n].kind = "Fixed" /\ out[n].file = last)
                        => out[n].n = Performed(1, original_content)

\* ------------------------------------------------------------------ C3
\* C3: a file whose text holds no match of any rule is never written, stays
\* as it was, gets no "Fixed" line, and fix_file returns 0 for it.
C3_NoMatchNoWrite ==
  /\ \A j \in 1..Len(files) :
       (Wrote(j) \/ files[j] # disk0[j] \/ FixedLine(j)) =>
          ~NoRuleMatches(disk0[j])
  /\ (Returned /\ NoRuleMatches(original_content)) => ret = 0

C3_Witness ==
  /\ Returned
  /\ NoRuleMatches(original_content)
  /\ \E i \in 1..Len(original_content) :
       original_content[i] \in UnwrapOrTokens
  /\ ret = 0

\* ------------------------------------------------------------------ C4
\* the tail of rule stands at text[i] and is directly followed by `.`
Chained(rule, text, i) ==
  /\ i + Len(rule.tail) <= Len(text)
  /\ \A n \in 1..Len(rule.tail) : text[i + n - 1] = rule.tail[n]
  /\ text[i + Len(rule.tail)] \in DotTokens

\* how far the rule's replacements left of position i move it
RECURSIVE Shift(_, _, _)
Shift(rule, matches, i) ==
  IF matches = <<>> \/ matches[1].end >= i THEN 0
  ELSE Len(rule.repl) - Len(rule.tail) + Shift(rule, Tail(matches), i)

\* C4: a guarded rule leaves every occurrence of its `.unwrap_or(X)` text
\* that is directly followed by `.` as it is, in whatever text the earlier
\* rules of the pass have produced.
C4_ChainedIsKept ==
  [][(pc = "rules" /\ pattern_tuple <= N /\ PATTERNS[pattern_tuple].guard) =>
       LET rule == PATTERNS[pattern_tuple] IN
       \A i \in 1..Len(content) :
         Chained(rule, content, i) =>
           Chained(rule, content',
                   i + Shift(rule, findall(rule, content), i))]_vars

C4_Witness ==
  /\ pc = "rules"
  /\ pattern_tuple = 3
  /\ \E i \in 1..Len(content) : Chained(PATTERNS[2], content, i)
  /\ \E i \in 1..Len(content) : content[i] = ".map_or(0, |v| v)"
  /\ \E i \in 1..Len(content) : content[i] = ".map_or(false, |v| v)"

\* ------------------------------------------------------------------ C5
\* C5: the callback rule, applied from the last match to the first, gives
\* the text in which all matches found up front are replaced at once, each
\* on its own span, and counts one fix per match.
C5_ReverseIsSimultaneous ==
  [][(pc = "rules" /\ pattern_tuple <= N
        /\ PATTERNS[pattern_tuple].is_function) =>
       /\ content' = AllAtOnce(PATTERNS[pattern_tuple], content, 1)
       /\ fixes' = fixes + Len(findall(PATTERNS[pattern_tuple], content))]_vars

C5_Witness ==
  /\ pc = "rules"
  /\ pattern_tuple = N + 1
  /\ Len(content) >= 7
  /\ content[1] = MatchOpen
  /\ \E i \in 4..Len(content) : content[i] = MatchOpen /\ content[i - 1] # MatchArms
  /\ fixes = 2

\* ------------------------------------------------------------------ C6
\* rule k is the only rule that matches text, and matches it once
OnlyMatch(k, text) ==
  /\ Len(findall(PATTERNS[k], text)) = 1
  /\ \A o \in 1..N : o # k => findall(PATTERNS[o], text) = <<>>

\* text with the single token at position i replaced by tok
WithToken(text, i, tok) == [text EXCEPT ![i] = tok]

\* C6: a file with exactly one occurrence of a simple literal rule's pattern
\* and no other rule match is written with that occurrence replaced by the
\* rule's replacement, and the reported and returned count is 1.
C6_SingleLiteral ==
  Returned =>
    /\ \A k \in 1..N :
         (PATTERNS[k].head = "none" /\ OnlyMatch(k, original_content)) =>
            LET m == findall(PATTERNS[k], original_content)[1] IN
            /\ files[last] = Splice(original_content, m, PATTERNS[k].repl)
            /\ Wrote(last)
            /\ ret = 1
            /\ \E n \in 1..Len(out) : out[n] = Line("Fixed", 1, last)
    /\ \A i \in 1..Len(original_content) :
         /\ (original_content[i] = ".unwrap_or(0)"
               /\ OnlyMatch(2, original_content)
               /\ findall(PATTERNS[2], original_content)[1].start = i)
              => files[last] = WithToken(original_content, i, ".map_or(0, |v| v)")
         /\ (original_content[i] = ".unwrap_or(false)"
               /\ OnlyMatch(3, original_content)
               /\ findall(PATTERNS[3], original_content)[1].start = i)
              => files[last] = WithToken(original_content, i, ".map_or(false, |v| v)")

C6_Witness ==
  /\ Returned
  /\ OnlyMatch(2, original_content)
  /\ Len(original_content) = 3
  /\ files[last] = <<"p", ".map_or(0, |v| v)", ")">>
  /\ ret = 1

\* ------------------------------------------------------------------ C7
\* the positions of text that lie inside a match of some rule
Matched(text) ==
  {i \in 1..Len(text) :
     \E k \in 1..N :
       \E n \in 1..Len(findall(PATTERNS[k], text)) :
         LET m == findall(PATTERNS[k], text)[n] IN m.start <= i /\ i <= m.end}

\* w is o with nothing changed outside the positions in mask: the tokens of
\* o outside mask are in w, unchanged and in order, and every other token of
\* w stands where a masked stretch of o stood
RECURSIVE Aligned(_, _, _, _, _, _)
Aligned(o, w, mask, i, j, inMask) ==
  \/ i > Len(o) /\ j > Len(w)
  \/ i <= Len(o) /\ i \in mask /\ Aligned(o, w, mask, i + 1, j, TRUE)
  \/ inMask /\ j <= Len(w) /\ Aligned(o, w, mask, i, j + 1, TRUE)
  \/ /\ i <= Len(o) /\ i \notin mask /\ j <= Len(w)
     /\ o[i] = w[j]
     /\ Aligned(o, w, mask, i + 1, j + 1, FALSE)

\* C7: whenever fix_file writes a file, the written text is the original
\* except inside the substrings of the original matched by some rule.
C7_OnlyMatchesChange ==
  (Returned /\ Wrote(last)) =>
     Aligned(original_content, files[last], Matched(original_content),
             1, 1, FALSE)

C7_Witness ==
  /\ Returned
  /\ Wrote(last)
  /\ Cardinality(Matched(original_content)) >= 3
  /\ \E i \in 1..Len(original_content) : i \notin Matched(original_content)
  /\ Len(files[last]) > Len(original_content)

\* ------------------------------------------------------------------ C8
\* C8: main fails only if the root is absent: then it prints the error, exits
\* with 1 and touches no file; whenever the root exists the process ends with
\* status 0 after the "Total fixes" line.
C8_FailsOnlyWithoutRoot ==
  /\ status = 1 => ~rootExists
  /\ (~rootExists /\ status # -1) =>
        status = 1 /\ out = <<Line("Error", 0, 0)>> /\ io = <<>>
  /\ (rootExists /\ status # -1) =>
        status = 0 /\ out # <<>> /\ out[Len(out)] = Line("Total", total_fixes, 0)

\* C8 as amended: an exit with status 1 happens when the root is absent or
\* when read_text or write_text raised.
C8_FailsWithoutRootOrOnIOError ==
  /\ status = 1 => (~rootExists \/ pc = "crash")
  /\ (~rootExists /\ status # -1) =>
        pc = "exit1" /\ status = 1 /\ out = <<Line("Error", 0, 0)>> /\ io = <<>>
  /\ (rootExists /\ status # -1 /\ pc # "crash") =>
        /\ pc = "done" /\ status = 0
        /\ out # <<>> /\ out[Len(out)] = Line("Total", total_fixes, 0)
  /\ pc = "crash" => rootExists /\ status = 1 /\ rs_file \in 1..Len(files)

C8_Witness ==
  /\ pc = "done"
  /\ status = 0
  /\ Len(files) = 3
  /\ total_fixes = 2
  /\ Len(out) = 3

\* ------------------------------------------------------------------ C9
\* C9: when reading or writing a file fails, the run stops there: the files
\* before it keep their rewrite, the failing file and the files after it are
\* not modified, no later file is processed, no "Total fixes" line is printed.
C9_AbortLeavesFileAlone ==
  pc = "crash" =>
     /\ \A j \in 1..Len(files) :
          /\ j < rs_file => files[j] = Rewritten(1, disk0[j])
          /\ j >= rs_file => files[j] = disk0[j]
          /\ j > rs_file => ~Touched(j)
     /\ ~TotalLine
     /\ ~ENABLED Next

\* C9 as amended: the failing file is unmodified when the read or the open
\* for writing failed, and holds a prefix of its rewritten text when the
\* write failed after the file was truncated.
C9_AbortMayTruncate ==
  pc = "crash" =>
     /\ \A j \in 1..Len(files) :
          /\ j < rs_file => files[j] = Rewritten(1, disk0[j])
          /\ j = rs_file =>
               \/ files[j] = disk0[j]
               \/ /\ Wrote(j)
                  /\ LET new == Rewritten(1, disk0[j]) IN
                     \E n \in 0..Len(new) : files[j] = SubSeq(new, 1, n)
          /\ j > rs_file => files[j] = disk0[j] /\ ~Touched(j)
     /\ ~TotalLine
     /\ ~ENABLED Next

C9_Witness ==
  /\ pc = "crash"
  /\ rs_file = 2
  /\ Len(files) = 3
  /\ files[1] # disk0[1]
  /\ files[2] # disk0[2]
  /\ files[2] # Rewritten(1, disk0[2])
  /\ ~NoRuleMatches(disk0[3])
  /\ files[3] = disk0[3]

\* ------------------------------------------------------------------ C10
\* C10: fix_file returns a positive count exactly when it writes the file
\* and prints a "Fixed" line; a changed file is never reported as 0 fixes.
C10_PositiveIffWritten ==
  /\ LoopDone => (Changed(content, original_content) <=> fixes > 0)
  /\ Returned =>
       /\ ret > 0 <=> Wrote(last)
       /\ ret > 0 <=> FixedLine(last)
       /\ files[last] # disk0[last] => ret > 0

C10_Witness ==
  /\ Returned
  /\ ret > 0
  /\ Wrote(last)
  /\ FixedLine(last)
  /\ \E i \in 1..Len(files[last]) : files[last][i] = MapOrElse
====
